---------------------------- MODULE Spec2Model ----------------------------
(***************************************************************************)
(* A model of the obsidian-tag-generator plugin: the KeywordExtractor      *)
(* (src/keyword-extractor.ts), the AIService refinement step               *)
(* (src/ai-service.ts) and the plugin glue (src/main.ts).                  *)
(*                                                                         *)
(* Text is modelled at the level of code points.  A code point is a pair   *)
(* <<class, name>>: class "ko" is a Hangul syllable of the block           *)
(* U+AC00..U+D7A3 (named by its romanisation), "up" / "lo" an upper / lower *)
(* case Latin letter (named by the lower case letter), "digit" a decimal   *)
(* digit, "sp" white space and "sym" any other code point.  A string is a  *)
(* sequence of code points.                                                *)
(***************************************************************************)
EXTENDS Integers, Sequences, FiniteSets, TLC

Ko(names) == [i \in 1..Len(names) |-> <<"ko", names[i]>>]
Up(names) == [i \in 1..Len(names) |-> <<"up", names[i]>>]
Lo(names) == [i \in 1..Len(names) |-> <<"lo", names[i]>>]
Dg(names) == [i \in 1..Len(names) |-> <<"digit", names[i]>>]

Space == <<"sp", " ">>
JuMark == <<"sym", "(ju)">>          \* U+3231, the parenthesised "ju" glyph
BJamo == <<"sym", "b-jamo">>         \* U+3142, a compatibility jamo (not a syllable)

IsHangul(c) == c[1] = "ko"                       \* [U+AC00 - U+D7A3]
IsUpper(c) == c[1] = "up"                        \* [A-Z]
IsLower(c) == c[1] = "lo"                        \* [a-z]
IsLetter(c) == IsUpper(c) \/ IsLower(c)          \* [a-zA-Z]
IsDigit(c) == c[1] = "digit"                     \* \d
IsSpace(c) == c[1] = "sp"                        \* \s
Underscore == <<"sym", "_">>
IsWordChar(c) == IsLetter(c) \/ IsDigit(c) \/ c = Underscore    \* \w

\* String.prototype.toLowerCase on the modelled code points.
ToLowerChar(c) == IF IsUpper(c) THEN <<"lo", c[2]>> ELSE c
ToLowerCase(s) == [i \in 1..Len(s) |-> ToLowerChar(s[i])]

\* s.substring(from - 1, to) with 1-based inclusive bounds.
Sub(s, from, to) == IF from > to THEN <<>> ELSE SubSeq(s, from, to)

SetMin(S) == CHOOSE x \in S : \A y \in S : x <= y
SetMax(S) == CHOOSE x \in S : \A y \in S : x >= y

(***************************************************************************)
(* The fixed tables of the KeywordExtractor constructor.                   *)
(***************************************************************************)
stopwordsKo ==
    { Ko(<<"i">>), Ko(<<"geu">>), Ko(<<"jeo">>), Ko(<<"geot">>), Ko(<<"su">>),
      Ko(<<"deung">>), Ko(<<"mit">>), Ko(<<"ui">>), Ko(<<"ga">>), Ko(<<"eul">>),
      Ko(<<"reul">>), Ko(<<"e">>), Ko(<<"e", "seo">>), Ko(<<"eu", "ro">>),
      Ko(<<"ro">>), Ko(<<"wa">>), Ko(<<"gwa">>), Ko(<<"do">>), Ko(<<"man">>),
      Ko(<<"ha", "da">>), Ko(<<"it", "da">>), Ko(<<"eop", "da">>),
      Ko(<<"doe", "da">>), Ko(<<"i", "da">>), Ko(<<"a", "ni", "da">>),
      Ko(<<"ha", "go">>), Ko(<<"han", "da">>), Ko(<<"i", "neun">>),
      Ko(<<"i", "ha">>), Ko(<<"tta", "ra">>), Ko(<<"tong", "hae">>),
      Ko(<<"wi", "han">>), Ko(<<"dae", "han">>), Ko(<<"gwan", "han">>),
      Ko(<<"ttae", "mun">>), Ko(<<"gyeong", "u">>), Ko(<<"i", "hu">>),
      Ko(<<"da", "reun">>), Ko(<<"yeo", "reo">>), Ko(<<"gat", "eun">>),
      Ko(<<"da", "yang", "han">>), Ko(<<"jung", "yo", "han">>),
      Ko(<<"pil", "yo", "han">>), Ko(<<"ga", "neung", "han">>),
      Ko(<<"jik", "jeop", "jeok", "in">>), Ko(<<"jang", "gi", "jeok", "in">>),
      Ko(<<"bae", "gyeong", "ji", "sik">>), Ko(<<"gyeol", "ron">>),
      Ko(<<"maek", "rak">>), Ko(<<"gwan", "gye">>) }

stopwordsEn ==
    { Lo(<<"t", "h", "e">>), Lo(<<"a">>), Lo(<<"a", "n">>), Lo(<<"a", "n", "d">>),
      Lo(<<"o", "r">>), Lo(<<"b", "u", "t">>), Lo(<<"i", "n">>), Lo(<<"o", "n">>),
      Lo(<<"a", "t">>), Lo(<<"t", "o">>), Lo(<<"f", "o", "r">>), Lo(<<"o", "f">>),
      Lo(<<"w", "i", "t", "h">>), Lo(<<"b", "y">>), Lo(<<"f", "r", "o", "m">>),
      Lo(<<"i", "s">>), Lo(<<"w", "a", "s">>), Lo(<<"a", "r", "e">>),
      Lo(<<"w", "e", "r", "e">>), Lo(<<"b", "e">>), Lo(<<"b", "e", "e", "n">>),
      Lo(<<"b", "e", "i", "n", "g">>), Lo(<<"h", "a", "v", "e">>),
      Lo(<<"h", "a", "s">>), Lo(<<"h", "a", "d">>) }

\* The alternatives of suffixPattern; each is a literal that must reach the
\* end of the word ($).
suffixPattern ==
    { Ko(<<"eun">>), Ko(<<"neun">>), Ko(<<"i">>), Ko(<<"ga">>), Ko(<<"eul">>),
      Ko(<<"reul">>), Ko(<<"ui">>), Ko(<<"e">>), Ko(<<"e", "seo">>),
      Ko(<<"eu", "ro">>), Ko(<<"ro">>), Ko(<<"wa">>), Ko(<<"gwa">>), Ko(<<"do">>),
      Ko(<<"man">>), Ko(<<"bu", "teo">>), Ko(<<"kka", "ji">>),
      Ko(<<"cheo", "reom">>), Ko(<<"gat", "i">>), Ko(<<"bo", "da">>),
      Ko(<<"ra", "go">>), Ko(<<"ra", "neun">>), Ko(<<"i", "ra">>),
      Ko(<<"ra", "myeo">>), Ko(<<"e", "do">>), Ko(<<"e", "neun">>),
      Ko(<<"eu", "ro", "neun">>), Ko(<<"e", "seo", "neun">>), Ko(<<"i", "na">>),
      Ko(<<"na">>), Ko(<<"deun", "ji">>), Ko(<<"deun", "ga">>), Ko(<<"i", "ran">>),
      Ko(<<"ran">>), Ko(<<"i", "myeon">>), Ko(<<"myeon">>), Ko(<<"ha", "myeon">>),
      Ko(<<"da", "myeon">>), Ko(<<"ra", "myeon">>), Ko(<<"hae", "seo">>),
      Ko(<<"hae", "do">>), Ko(<<"ha", "neun">>), Ko(<<"ha", "go">>),
      Ko(<<"ha", "myeo">>), Ko(<<"hae", "ya">>), Ko(<<"ip", "ni", "da">>),
      Ko(<<"hap", "ni", "da">>), Ko(<<"doep", "ni", "da">>),
      Ko(<<"seup", "ni", "da">>), <<BJamo>> \o Ko(<<"ni", "da">>),
      Ko(<<"ni", "da">>) }

\* constructor(maxTags: number = 10)
DefaultMaxTags == 10

(***************************************************************************)
(* KeywordExtractor.cleanKoreanWord                                        *)
(***************************************************************************)
\* cleaned.replace(this.suffixPattern, ''): the pattern is not global and is
\* anchored at the end, so the engine removes the match that starts leftmost,
\* i.e. the longest tail of the word that is one of the alternatives.
ReplaceSuffix(cleaned) ==
    LET starts == { i \in 1..Len(cleaned) :
                        Sub(cleaned, i, Len(cleaned)) \in suffixPattern }
    IN  IF starts = {} THEN cleaned ELSE Sub(cleaned, 1, SetMin(starts) - 1)

RECURSIVE CleanLoop(_, _)
CleanLoop(cleaned, prevLength) ==
    IF Len(cleaned) # prevLength /\ Len(cleaned) >= 2
    THEN CleanLoop(ReplaceSuffix(cleaned), Len(cleaned))
    ELSE cleaned

\* A stripper that makes a single pass instead of looping to the fixed point.
cleanKoreanWordOnePass(word) ==
    IF Len(word) >= 2 THEN ReplaceSuffix(word) ELSE word

cleanKoreanWord(word) == CleanLoop(word, 0)


(***************************************************************************)
(* Regular-expression helpers.  Every pattern of the extractor is a        *)
(* sequence of character-class runs, so a match attempt at a position is   *)
(* computed from the greedy end of each run and the positions the engine   *)
(* can backtrack to.                                                       *)
(***************************************************************************)
\* The last index of the longest run of P-characters that starts at i
\* (i - 1 when s[i] is no P-character): a greedy P* from position i.
RunEnd(s, i, P(_)) ==
    IF i > Len(s) \/ ~P(s[i]) THEN i - 1
    ELSE LET stops == { j \in i..Len(s) : ~P(s[j]) }
         IN  IF stops = {} THEN Len(s) ELSE SetMin(stops) - 1

\* \b between s[p] and s[p + 1] (p = 0: before the first code point).
Boundary(s, p) ==
    LET before == p >= 1 /\ p <= Len(s) /\ IsWordChar(s[p])
        after == p + 1 >= 1 /\ p + 1 <= Len(s) /\ IsWordChar(s[p + 1])
    IN  before # after

\* Whether the literal lit occurs in s at position i.
LitAt(s, i, lit) ==
    i + Len(lit) - 1 <= Len(s) /\ Sub(s, i, i + Len(lit) - 1) = lit

\* String.prototype.trim.
Trim(s) ==
    LET keep == { i \in 1..Len(s) : ~IsSpace(s[i]) }
    IN  IF keep = {} THEN <<>> ELSE Sub(s, SetMin(keep), SetMax(keep))

\* text.match(/.../g) || [] and the exec loop: the matches of a pattern from
\* left to right, never overlapping.  EndAt[i] is the last index of the match
\* that starts at i, or 0 when the pattern does not match at i.
RECURSIVE ScanFrom(_, _, _)
ScanFrom(s, EndAt, i) ==
    IF i > Len(s) THEN <<>>
    ELSE LET e == EndAt[i]
         IN  IF e = 0 THEN ScanFrom(s, EndAt, i + 1)
             ELSE <<Sub(s, i, e)>> \o ScanFrom(s, EndAt, e + 1)

MatchAll(s, EndAt) == ScanFrom(s, EndAt, 1)

(***************************************************************************)
(* KeywordExtractor.extractGeneralKeywords                                 *)
(***************************************************************************)
\* koPattern = /[ga-hih]{2,}/g : a run of two or more Hangul syllables.
koPattern(s) ==
    [i \in 1..Len(s) |->
        LET j == RunEnd(s, i, IsHangul)
        IN  IF j >= i + 1 THEN j ELSE 0]

\* /\b[A-Z]{2,}\b/ at position i.
AcronymEnd(s, i) ==
    LET j == RunEnd(s, i, IsUpper)
        ends == { e \in (i + 1)..j : Boundary(s, e) }
    IN  IF Boundary(s, i - 1) /\ ends # {} THEN SetMax(ends) ELSE 0

\* /\b[A-Z][a-zA-Z]{2,}\b/ at position i.
CapitalWordEnd(s, i) ==
    LET j == RunEnd(s, i + 1, IsLetter)
        ends == { e \in (i + 2)..j : Boundary(s, e) }
    IN  IF Boundary(s, i - 1) /\ IsUpper(s[i]) /\ ends # {} THEN SetMax(ends) ELSE 0

\* enPattern = /\b[A-Z][a-zA-Z]{2,}\b|\b[A-Z]{2,}\b/g : the first alternative
\* is tried first.
enPattern(s) ==
    [i \in 1..Len(s) |->
        IF CapitalWordEnd(s, i) # 0 THEN CapitalWordEnd(s, i) ELSE AcronymEnd(s, i)]

KeepKorean(cleaned) == Len(cleaned) >= 2 /\ cleaned \notin stopwordsKo

KeepEnglish(w) == ToLowerCase(w) \notin stopwordsEn

extractGeneralKeywords(s) ==
    LET koMatches == MatchAll(s, koPattern(s))
        cleanedKo == [i \in 1..Len(koMatches) |-> cleanKoreanWord(koMatches[i])]
        enMatches == MatchAll(s, enPattern(s))
    IN  SelectSeq(cleanedKo, KeepKorean) \o SelectSeq(enMatches, KeepEnglish)

(***************************************************************************)
(* KeywordExtractor.extractProperNouns                                     *)
(***************************************************************************)
JusikHoesa == Ko(<<"ju", "sik", "hoe", "sa">>)

IsNameChar(c) == IsHangul(c) \/ IsLetter(c)      \* [ga-hihA-Za-z]

\* The last index of the entity marker (?:jusikhoesa|(ju)) at position i, or 0.
MarkerEnd(s, i) ==
    IF LitAt(s, i, JusikHoesa) THEN i + Len(JusikHoesa) - 1
    ELSE IF LitAt(s, i, <<JuMark>>) THEN i
    ELSE 0

\* companyPattern = /(?:jusikhoesa|(ju))\s*([..]+(?:\s+[..]+)?)/g at position
\* i: <<first index of group 1, last index of the match>>, or <<0, 0>>.
CompanyAt(s, i) ==
    LET m == MarkerEnd(s, i)
        nameStart == RunEnd(s, m + 1, IsSpace) + 1
        first == RunEnd(s, nameStart, IsNameChar)
        gap == RunEnd(s, first + 1, IsSpace)
        second == RunEnd(s, gap + 1, IsNameChar)
    IN  IF m = 0 \/ first < nameStart THEN <<0, 0>>
        ELSE IF gap >= first + 1 /\ second >= gap + 1 THEN <<nameStart, second>>
        ELSE <<nameStart, first>>

\* The while ((match = companyPattern.exec(text)) !== null) loop: match[1],
\* trimmed, is pushed when its length is at least 2.
RECURSIVE CompanyLoop(_, _)
CompanyLoop(s, i) ==
    IF i > Len(s) THEN <<>>
    ELSE IF CompanyAt(s, i)[2] = 0 THEN CompanyLoop(s, i + 1)
    ELSE LET at == CompanyAt(s, i)
             company == Trim(Sub(s, at[1], at[2]))
         IN  (IF Len(company) >= 2 THEN <<company>> ELSE <<>>)
                 \o CompanyLoop(s, at[2] + 1)

\* The ends of one or more repetitions of (?:\s+[A-Z][a-z]+) after index e.
RECURSIVE GroupEnds(_, _)
GroupEnds(s, e) ==
    LET gap == RunEnd(s, e + 1, IsSpace)
        word == RunEnd(s, gap + 2, IsLower)
    IN  IF gap >= e + 1 /\ gap + 1 <= Len(s) /\ IsUpper(s[gap + 1]) /\ word >= gap + 2
        THEN {word} \cup GroupEnds(s, word)
        ELSE {}

\* capitalizedPattern = /\b[A-Z][a-z]+(?:\s+[A-Z][a-z]+)+\b/g
capitalizedPattern(s) ==
    [i \in 1..Len(s) |->
        LET first == RunEnd(s, i + 1, IsLower)
            ends == { e \in GroupEnds(s, first) : Boundary(s, e) }
        IN  IF Boundary(s, i - 1) /\ IsUpper(s[i]) /\ first >= i + 1 /\ ends # {}
            THEN SetMax(ends) ELSE 0]

\* acronymPattern = /\b[A-Z]{2,}\b/g
acronymPattern(s) == [i \in 1..Len(s) |-> AcronymEnd(s, i)]

NonEmpty(pn) == Len(pn) > 0

extractProperNouns(s) ==
    LET properNouns == CompanyLoop(s, 1)
                           \o MatchAll(s, capitalizedPattern(s))
                           \o MatchAll(s, acronymPattern(s))
    IN  SelectSeq([i \in 1..Len(properNouns) |-> Trim(properNouns[i])], NonEmpty)

(***************************************************************************)
(* KeywordExtractor.extractNumbers                                         *)
(***************************************************************************)
Won == <<"ko", "won">>
MagnitudeUnits == { <<"ko", "jo">>, <<"ko", "eok">>, <<"ko", "man">> }
Nyeon == <<"ko", "nyeon">>
Wol == <<"ko", "wol">>
Il == <<"ko", "il">>
CountUnits == { <<"ko", "myeong">>, <<"ko", "geon">>, <<"ko", "hoe">>, <<"ko", "gae">> }
Comma == <<"sym", ",">>

CharAt(s, i, c) == i >= 1 /\ i <= Len(s) /\ s[i] = c
CharIn(s, i, S) == i >= 1 /\ i <= Len(s) /\ s[i] \in S
DigitsAt(s, i, n) == i + n - 1 <= Len(s) /\ \A k \in i..(i + n - 1) : IsDigit(s[k])

\* moneyPattern = /\d+(?:jo|eok|man)?won/g
moneyPattern(s) ==
    [i \in 1..Len(s) |->
        LET d == RunEnd(s, i, IsDigit)
        IN  IF d < i THEN 0
            ELSE IF CharIn(s, d + 1, MagnitudeUnits) /\ CharAt(s, d + 2, Won) THEN d + 2
            ELSE IF CharAt(s, d + 1, Won) THEN d + 1
            ELSE 0]

\* /\d{1,2}wol\d{1,2}il/ at position i: each \d{1,2} takes two digits when
\* it can and gives one back when the unit does not follow.
MonthDayEnd(s, i) ==
    LET month == IF DigitsAt(s, i, 2) /\ CharAt(s, i + 2, Wol) THEN i + 2
                 ELSE IF DigitsAt(s, i, 1) /\ CharAt(s, i + 1, Wol) THEN i + 1
                 ELSE 0
    IN  IF month = 0 THEN 0
        ELSE IF DigitsAt(s, month + 1, 2) /\ CharAt(s, month + 3, Il) THEN month + 3
        ELSE IF DigitsAt(s, month + 1, 1) /\ CharAt(s, month + 2, Il) THEN month + 2
        ELSE 0

\* datePattern = /\d{4}nyeon|\d{1,2}wol\d{1,2}il/g
datePattern(s) ==
    [i \in 1..Len(s) |->
        IF DigitsAt(s, i, 4) /\ CharAt(s, i + 4, Nyeon) THEN i + 4
        ELSE MonthDayEnd(s, i)]

\* The ends of zero or more repetitions of (?:,\d{3}) after index e.
RECURSIVE ThousandsEnds(_, _)
ThousandsEnds(s, e) ==
    IF CharAt(s, e + 1, Comma) /\ DigitsAt(s, e + 2, 3)
    THEN {e} \cup ThousandsEnds(s, e + 4)
    ELSE {e}

\* largeNumPattern = /\d+(?:,\d{3})*(?:myeong|geon|hoe|gae)/g
largeNumPattern(s) ==
    [i \in 1..Len(s) |->
        LET d == RunEnd(s, i, IsDigit)
            ends == { e \in ThousandsEnds(s, d) : CharIn(s, e + 1, CountUnits) }
        IN  IF d < i \/ ends = {} THEN 0 ELSE SetMax(ends) + 1]

extractNumbers(s) ==
    MatchAll(s, moneyPattern(s)) \o MatchAll(s, datePattern(s))
        \o MatchAll(s, largeNumPattern(s))

(***************************************************************************)
(* KeywordExtractor.countFrequency                                         *)
(*                                                                         *)
(* freq is a plain object literal: its own keys keep their insertion order *)
(* (no candidate is an integer-like key: numeric tokens end in a unit) and *)
(* a key it does not own is looked up on Object.prototype.  The table is   *)
(* modelled as the sequence Object.entries(freq) of [key, count] entries.  *)
(* A count is [num |-> TRUE, n |-> k] for the number k, and                *)
(* [num |-> FALSE, n |-> k] for the string made of the source text of an   *)
(* inherited function followed by k characters "1".                        *)
(***************************************************************************)
\* The members of Object.prototype whose names the matchers can produce.
ObjectPrototypeKeys ==
    { Lo(<<"c", "o", "n", "s", "t", "r", "u", "c", "t", "o", "r">>),
      Lo(<<"h", "a", "s">>) \o Up(<<"o">>) \o Lo(<<"w", "n">>) \o Up(<<"p">>)
          \o Lo(<<"r", "o", "p", "e", "r", "t", "y">>),
      Lo(<<"i", "s">>) \o Up(<<"p">>) \o Lo(<<"r", "o", "t", "o", "t", "y", "p", "e">>)
          \o Up(<<"o">>) \o Lo(<<"f">>),
      Lo(<<"p", "r", "o", "p", "e", "r", "t", "y">>) \o Up(<<"i">>) \o Lo(<<"s">>)
          \o Up(<<"e">>) \o Lo(<<"n", "u", "m", "e", "r", "a", "b", "l", "e">>),
      Lo(<<"t", "o">>) \o Up(<<"l">>) \o Lo(<<"o", "c", "a", "l", "e">>) \o Up(<<"s">>)
          \o Lo(<<"t", "r", "i", "n", "g">>),
      Lo(<<"t", "o">>) \o Up(<<"s">>) \o Lo(<<"t", "r", "i", "n", "g">>),
      Lo(<<"v", "a", "l", "u", "e">>) \o Up(<<"o">>) \o Lo(<<"f">>) }

\* The index of the own property keyword in freq, or 0.
OwnIndex(freq, keyword) ==
    IF \E i \in 1..Len(freq) : freq[i].key = keyword
    THEN CHOOSE i \in 1..Len(freq) : freq[i].key = keyword
    ELSE 0

\* (freq[keyword] || 0) + 1
NextCount(freq, keyword) ==
    LET i == OwnIndex(freq, keyword)
    IN  IF i # 0 THEN [num |-> freq[i].count.num, n |-> freq[i].count.n + 1]
        ELSE IF keyword \in ObjectPrototypeKeys THEN [num |-> FALSE, n |-> 1]
        ELSE [num |-> TRUE, n |-> 1]

\* freq[keyword] = ...
Assign(freq, keyword, count) ==
    LET i == OwnIndex(freq, keyword)
    IN  IF i # 0 THEN [freq EXCEPT ![i].count = count]
        ELSE Append(freq, [key |-> keyword, count |-> count])

RECURSIVE CountLoop(_, _, _)
CountLoop(freq, keywords, i) ==
    IF i > Len(keywords) THEN freq
    ELSE CountLoop(Assign(freq, keywords[i], NextCount(freq, keywords[i])),
                   keywords, i + 1)

\* A table that records every occurrence as an entry of its own.
countFrequencyNoMerge(keywords) ==
    [i \in 1..Len(keywords) |->
        [key |-> keywords[i], count |-> [num |-> TRUE, n |-> 1]]]

countFrequency(keywords) == CountLoop(<<>>, keywords, 1)

(***************************************************************************)
(* KeywordExtractor.getTopKeywords                                         *)
(***************************************************************************)
\* (a, b) => b[1] - a[1]; a difference that is NaN counts as +0.
Compare(a, b) ==
    IF a.count.num /\ b.count.num THEN b.count.n - a.count.n ELSE 0

\* Whether the comparator is a consistent one for the entries.
Consistent(entries) ==
    \A a, b, c \in 1..Len(entries) :
        Compare(entries[a], entries[b]) = 0 /\ Compare(entries[b], entries[c]) = 0
            => Compare(entries[a], entries[c]) = 0

\* The stable order: a before b when the comparator puts it first, or leaves
\* them equal and a comes first in the input.
Precedes(entries, a, b) ==
    \/ Compare(entries[a], entries[b]) < 0
    \/ Compare(entries[a], entries[b]) = 0 /\ a < b

StableSorted(entries) ==
    [r \in 1..Len(entries) |->
        entries[CHOOSE i \in 1..Len(entries) :
                    Cardinality({ j \in 1..Len(entries) : Precedes(entries, j, i) })
                        = r - 1]]

\* Array.prototype.sort: stable; with a comparator that is not consistent the
\* order is implementation-defined.
SortOutcomes(entries) ==
    IF Consistent(entries) THEN { StableSorted(entries) }
    ELSE { [i \in 1..Len(entries) |-> entries[p[i]]] :
               p \in Permutations(1..Len(entries)) }

\* A slice that keeps one entry too many.
SliceOneMore(s, topN) ==
    LET end == IF topN + 1 < 0 THEN Len(s) + topN + 1
               ELSE IF topN + 1 > Len(s) THEN Len(s) ELSE topN + 1
    IN  Sub(s, 1, end)

\* Array.prototype.slice(0, topN)
Slice(s, topN) ==
    LET end == IF topN < 0 THEN Len(s) + topN
               ELSE IF topN > Len(s) THEN Len(s) ELSE topN
    IN  Sub(s, 1, end)

\* The results the sort can produce.
getTopKeywords(freq, topN) ==
    { Slice([i \in 1..Len(sorted) |-> sorted[i].key], topN) :
          sorted \in SortOutcomes(freq) }

(***************************************************************************)
(* KeywordExtractor.extractKeywords                                        *)
(***************************************************************************)
\* if (title) { ... extractGeneralKeywords(title) ... }
TitleKeywords(noteTitle) ==
    IF noteTitle # <<>> THEN extractGeneralKeywords(noteTitle) ELSE <<>>

\* A weighting that pushes the title keywords twice.
WeightedSequenceTitleTwice(titleKw, properNs, bodyKw, nums) ==
    titleKw \o titleKw \o properNs \o properNs \o bodyKw \o nums

\* The array keywords after the four pushes.
WeightedSequence(titleKw, properNs, bodyKw, nums) ==
    titleKw \o titleKw \o titleKw \o properNs \o properNs \o bodyKw \o nums

(***************************************************************************)
(* new KeywordExtractor(maxTags): the constructor stores the argument; it  *)
(* has no statement that throws.                                           *)
(***************************************************************************)
NewKeywordExtractor(n) == [threw |-> FALSE, maxTags |-> n]

(***************************************************************************)
(* TagGeneratorPlugin settings (src/main.ts)                               *)
(***************************************************************************)
DEFAULT_SETTINGS ==
    [ maxTags |-> 10,
      overwriteExistingTags |-> FALSE,
      excludeFolders |-> <<>>,
      minWordLength |-> 2,
      useAI |-> FALSE,
      openaiApiKey |-> "",
      model |-> "gpt-3.5-turbo" ]

\* The options of the 'AI Model' dropdown.
ModelOptions == { "gpt-3.5-turbo", "gpt-4", "gpt-4-turbo-preview" }

DigitValue ==
    ("0" :> 0) @@ ("1" :> 1) @@ ("2" :> 2) @@ ("3" :> 3) @@ ("4" :> 4)
        @@ ("5" :> 5) @@ ("6" :> 6) @@ ("7" :> 7) @@ ("8" :> 8) @@ ("9" :> 9)

Minus == <<"sym", "-">>
Plus == <<"sym", "+">>

RECURSIVE DecimalValue(_)
DecimalValue(digits) ==
    IF Len(digits) = 0 THEN 0
    ELSE 10 * DecimalValue(Sub(digits, 1, Len(digits) - 1))
             + DigitValue[digits[Len(digits)][2]]

\* parseInt(value): leading white space, an optional sign, then the longest run
\* of decimal digits; NaN when there is none.  (A "0x" prefix, which selects
\* radix 16, is not among the modelled inputs.)
ParseInt(value) ==
    LET start == RunEnd(value, 1, IsSpace) + 1
        signed == CharAt(value, start, Minus) \/ CharAt(value, start, Plus)
        first == IF signed THEN start + 1 ELSE start
        last == RunEnd(value, first, IsDigit)
        magnitude == DecimalValue(Sub(value, first, last))
    IN  IF last < first THEN [nan |-> TRUE, num |-> 0]
        ELSE [nan |-> FALSE,
              num |-> IF CharAt(value, start, Minus) THEN 0 - magnitude ELSE magnitude]

\* Object.assign({}, DEFAULT_SETTINGS, await this.loadData()): loadData gives
\* null before the first save; data holds every field the saved object had.
LoadedSettings(saved) ==
    IF saved.exists THEN saved.data ELSE DEFAULT_SETTINGS

Newline == <<"sp", "nl">>
Slash == <<"sym", "/">>

\* String.prototype.split(sep) for a separator of one code point.
RECURSIVE Split(_, _)
Split(s, sep) ==
    LET at == { i \in 1..Len(s) : s[i] = sep }
    IN  IF at = {} THEN <<s>>
        ELSE <<Sub(s, 1, SetMin(at) - 1)>> \o Split(Sub(s, SetMin(at) + 1, Len(s)), sep)

\* .map(f => f.trim()).filter(f => f.length > 0)
TrimmedNonEmpty(parts) ==
    SelectSeq([i \in 1..Len(parts) |-> Trim(parts[i])], NonEmpty)

\* The excludeFolders value read from the 'Excluded folders' text area.
ParseFolders(value) == TrimmedNonEmpty(Split(value, Newline))

\* The AIServiceSettings object built in onload and saveSettings.
AIServiceSettings(st) ==
    [openaiApiKey |-> st.openaiApiKey, model |-> st.model, useAI |-> st.useAI]

(***************************************************************************)
(* AIService.refineTags (src/ai-service.ts)                                *)
(*                                                                         *)
(* A response of the completions endpoint is a record:                     *)
(*   kind = "network error"  fetch rejects                                 *)
(*   kind = "http error"     response.ok is false                          *)
(*   kind = "body not json"  response.json() rejects                       *)
(*   kind = "no choices"     data.choices[0].message.content throws        *)
(*   kind = "no content"     the content is undefined                      *)
(*   kind = "null content"   the content is null                           *)
(*   kind = "content"        the content is the string in field content    *)
(***************************************************************************)
Quote == <<"sym", "quote">>
LBracket == <<"sym", "[">>
RBracket == <<"sym", "]">>

\* The index of the first Quote at or after i, or 0.
NextQuote(s, i) ==
    LET at == { j \in i..Len(s) : s[j] = Quote }
    IN  IF at = {} THEN 0 ELSE SetMin(at)

JsonFail == [ok |-> FALSE, next |-> 0, val |-> [type |-> "none"]]

\* JSON.parse on the code points the model has: strings without escapes,
\* unsigned integers and arrays.  JsonValue reads one value at i; next is the
\* index after it.
RECURSIVE JsonValue(_, _)
RECURSIVE JsonElements(_, _, _)
JsonValue(s, i) ==
    IF i > Len(s) THEN JsonFail
    ELSE IF s[i] = Quote
    THEN LET close == NextQuote(s, i + 1)
         IN  IF close = 0 THEN JsonFail
             ELSE [ok |-> TRUE, next |-> close + 1,
                   val |-> [type |-> "string", str |-> Sub(s, i + 1, close - 1)]]
    ELSE IF IsDigit(s[i])
    THEN LET last == IF s[i][2] = "0" THEN i ELSE RunEnd(s, i, IsDigit)
         IN  [ok |-> TRUE, next |-> last + 1, val |-> [type |-> "number"]]
    ELSE IF s[i] = LBracket
    THEN IF CharAt(s, i + 1, RBracket)
         THEN [ok |-> TRUE, next |-> i + 2, val |-> [type |-> "array", elems |-> <<>>]]
         ELSE JsonElements(s, i + 1, <<>>)
    ELSE JsonFail

\* The elements of an array from i on, after the elements already read.
JsonElements(s, i, read) ==
    LET elem == JsonValue(s, i)
    IN  IF ~elem.ok THEN JsonFail
        ELSE IF CharAt(s, elem.next, RBracket)
        THEN [ok |-> TRUE, next |-> elem.next + 1,
              val |-> [type |-> "array", elems |-> Append(read, elem.val)]]
        ELSE IF CharAt(s, elem.next, Comma)
        THEN JsonElements(s, elem.next + 1, Append(read, elem.val))
        ELSE JsonFail

\* JSON.parse(content): the whole string must be one value.
JsonParse(s) ==
    LET v == JsonValue(s, 1)
    IN  IF v.ok /\ v.next = Len(s) + 1 THEN v ELSE JsonFail

IsTag(v) == v.type = "string" /\ Len(v.str) > 0

\* refinedTags.filter(tag => typeof tag === 'string' && tag.length > 0)
FilterTags(elems) ==
    LET kept == SelectSeq(elems, IsTag)
    IN  [i \in 1..Len(kept) |-> kept[i].str]

\* /"([^"]+)"/g
quotedPattern(s) ==
    [i \in 1..Len(s) |->
        LET close == NextQuote(s, i + 1)
        IN  IF s[i] = Quote /\ close >= i + 2 THEN close ELSE 0]

NotQuote(c) == c # Quote

\* content.match(/"([^"]+)"/g) with each match stripped of its quotes.
QuotedSubstrings(s) ==
    LET matches == MatchAll(s, quotedPattern(s))
    IN  SelectSeq([i \in 1..Len(matches) |-> SelectSeq(matches[i], NotQuote)],
                  NonEmpty)

\* The body of the outer try block once fetch has settled: what it returns, or
\* that it threw.
TryRefine(tags, response) ==
    IF response.kind \in {"network error", "http error", "body not json",
                          "no choices"}
    THEN [threw |-> TRUE, value |-> <<>>]
    ELSE IF response.kind = "no content"
    THEN [threw |-> TRUE, value |-> <<>>]    \* JSON.parse throws, then content.match
    ELSE IF response.kind = "null content"
    THEN [threw |-> FALSE, value |-> tags]   \* JSON.parse(null) is null, no array
    ELSE LET parsed == JsonParse(response.content)
         IN  IF parsed.ok
             THEN IF parsed.val.type = "array"
                  THEN [threw |-> FALSE, value |-> FilterTags(parsed.val.elems)]
                  ELSE [threw |-> FALSE, value |-> tags]
             ELSE IF MatchAll(response.content, quotedPattern(response.content)) # <<>>
                  THEN [threw |-> FALSE, value |-> QuotedSubstrings(response.content)]
                  ELSE [threw |-> FALSE, value |-> tags]

\* refineTags without its outer catch: an exception rejects the promise.
SettleRefineNoCatch(tags, response) ==
    LET tried == TryRefine(tags, response)
    IN  IF tried.threw THEN [state |-> "rejected", value |-> <<>>]
        ELSE [state |-> "resolved", value |-> tried.value]

\* try { ... } catch (error) { return tags; }
SettleRefine(tags, response) ==
    LET tried == TryRefine(tags, response)
    IN  IF tried.threw THEN [state |-> "resolved", value |-> tags]
        ELSE [state |-> "resolved", value |-> tried.value]

\* if (!this.settings.useAI || !this.settings.openaiApiKey)
RefinementOff(st) == ~st.useAI \/ st.openaiApiKey = ""

(***************************************************************************)
(* TagGeneratorPlugin: the text of a document (src/main.ts)                *)
(***************************************************************************)
Backtick == <<"sym", "backtick">>
LParen == <<"sym", "(">>
RParen == <<"sym", ")">>
Colon == <<"sym", ":">>
Dot == <<"sym", ".">>
MarkdownMarks == { <<"sym", "#">>, <<"sym", "*">>, Underscore, <<"sym", "~">> }

FenceOpen == <<Minus, Minus, Minus, Newline>>               \* "---\n"
FenceClose == <<Newline, Minus, Minus, Minus, Newline>>     \* "\n---\n"
CodeFence == <<Backtick, Backtick, Backtick>>
TagsKey == Lo(<<"t", "a", "g", "s">>) \o <<Colon>>          \* "tags:"
ListItem == <<Space, Space, Minus, Space>>                  \* "  - "

NotNewline(c) == c # Newline            \* .
NotBacktick(c) == c # Backtick          \* any but a backtick
NotRBracket(c) == c # RBracket          \* [^\]]
NotRParen(c) == c # RParen              \* [^\)]
NotBracket(c) == c # LBracket /\ c # RBracket
NotMark(c) == c \notin MarkdownMarks

\* s.replace(pattern, ...) for a /g pattern: EndAt[i] is the last index of the
\* match that starts at i (0: none), With[i] what that match is replaced with.
RECURSIVE ReplaceFrom(_, _, _, _)
ReplaceFrom(s, EndAt, With, i) ==
    IF i > Len(s) THEN <<>>
    ELSE LET e == EndAt[i]
         IN  IF e = 0 THEN <<s[i]>> \o ReplaceFrom(s, EndAt, With, i + 1)
             ELSE With[i] \o ReplaceFrom(s, EndAt, With, e + 1)

ReplaceAll(s, EndAt, With) == ReplaceFrom(s, EndAt, With, 1)

Nothing(s) == [i \in 1..Len(s) |-> <<>>]

\* frontmatterRegex = /^---\n([\s\S]*?)\n---\n/ : the match at the start of
\* content, its group 1 and the index of its last code point.
FrontmatterMatch(content) ==
    LET closes == { j \in 5..Len(content) : LitAt(content, j, FenceClose) }
    IN  IF LitAt(content, 1, FenceOpen) /\ closes # {}
        THEN [found |-> TRUE,
              frontmatter |-> Sub(content, 5, SetMin(closes) - 1),
              last |-> SetMin(closes) + 4]
        ELSE [found |-> FALSE, frontmatter |-> <<>>, last |-> 0]

\* /BBB[\s\S]*?BBB/g, B a backtick
codeBlockPattern(s) ==
    [i \in 1..Len(s) |->
        LET closes == { j \in (i + 3)..Len(s) : LitAt(s, j, CodeFence) }
        IN  IF LitAt(s, i, CodeFence) /\ closes # {} THEN SetMin(closes) + 2 ELSE 0]

\* /B[^B]+B/g, B a backtick
inlineCodePattern(s) ==
    [i \in 1..Len(s) |->
        LET r == RunEnd(s, i + 1, NotBacktick)
        IN  IF s[i] = Backtick /\ r >= i + 1 /\ CharAt(s, r + 1, Backtick)
            THEN r + 1 ELSE 0]

\* /\[\[([^\]]+)\]\]/g
wikiLinkPattern(s) ==
    [i \in 1..Len(s) |->
        LET r == RunEnd(s, i + 2, NotRBracket)
        IN  IF LitAt(s, i, <<LBracket, LBracket>>) /\ r >= i + 2
                /\ LitAt(s, r + 1, <<RBracket, RBracket>>)
            THEN r + 2 ELSE 0]

wikiLinkText(s) == [i \in 1..Len(s) |-> Sub(s, i + 2, RunEnd(s, i + 2, NotRBracket))]

\* /\[([^\]]+)\]\([^\)]+\)/g
linkPattern(s) ==
    [i \in 1..Len(s) |->
        LET r == RunEnd(s, i + 1, NotRBracket)
            q == RunEnd(s, r + 3, NotRParen)
        IN  IF s[i] = LBracket /\ r >= i + 1
                /\ LitAt(s, r + 1, <<RBracket, LParen>>)
                /\ q >= r + 3 /\ CharAt(s, q + 1, RParen)
            THEN q + 1 ELSE 0]

linkText(s) == [i \in 1..Len(s) |-> Sub(s, i + 1, RunEnd(s, i + 1, NotRBracket))]

extractBodyText(content) ==
    LET fm == FrontmatterMatch(content)
        noFrontmatter == IF fm.found THEN Sub(content, fm.last + 1, Len(content))
                         ELSE content
        noBlocks == ReplaceAll(noFrontmatter, codeBlockPattern(noFrontmatter),
                               Nothing(noFrontmatter))
        noCode == ReplaceAll(noBlocks, inlineCodePattern(noBlocks), Nothing(noBlocks))
        noWiki == ReplaceAll(noCode, wikiLinkPattern(noCode), wikiLinkText(noCode))
        noLinks == ReplaceAll(noWiki, linkPattern(noWiki), linkText(noWiki))
    IN  SelectSeq(noLinks, NotMark)

\* The first line of frontmatter that starts with "tags:" (0: none), for the
\* two /m patterns.
TagsLineStart(frontmatter) ==
    LET at == { i \in 1..Len(frontmatter) :
                  /\ i = 1 \/ frontmatter[i - 1] = Newline
                  /\ LitAt(frontmatter, i, TagsKey) }
    IN  IF at = {} THEN 0 ELSE SetMin(at)

\* frontmatter.match(/^tags:\s*(.*)$/m)[1]: \s* runs over line ends too.
ExistingTagsStr(frontmatter) ==
    LET i == TagsLineStart(frontmatter)
        w == RunEnd(frontmatter, i + 5, IsSpace)
    IN  Sub(frontmatter, w + 1, RunEnd(frontmatter, w + 1, NotNewline))

\* frontmatter.replace(/^tags:.*$/m, replacement)
ReplaceTagsLine(frontmatter, replacement) ==
    LET i == TagsLineStart(frontmatter)
        e == RunEnd(frontmatter, i + 5, NotNewline)
    IN  Sub(frontmatter, 1, i - 1) \o replacement
            \o Sub(frontmatter, e + 1, Len(frontmatter))

\* tags.map(t => '  - ' + t).join('\n')
RECURSIVE TagLines(_)
TagLines(tags) ==
    IF Len(tags) = 0 THEN <<>>
    ELSE IF Len(tags) = 1 THEN ListItem \o tags[1]
    ELSE ListItem \o tags[1] \o <<Newline>> \o TagLines(Tail(tags))

\* The existing tags parsed from the text after "tags:".
ExistingTags(existingTagsStr) ==
    IF CharAt(existingTagsStr, 1, LBracket)
    THEN TrimmedNonEmpty(Split(SelectSeq(existingTagsStr, NotBracket), Comma))
    ELSE IF Trim(existingTagsStr) # <<>> THEN <<Trim(existingTagsStr)>>
    ELSE <<>>

\* [...new Set(list)]: the first occurrence of each element, in order.
RECURSIVE Unique(_)
Unique(list) ==
    IF Len(list) = 0 THEN <<>>
    ELSE LET front == Unique(Sub(list, 1, Len(list) - 1))
         IN  IF \E k \in 1..Len(front) : front[k] = list[Len(list)]
             THEN front ELSE Append(front, list[Len(list)])

\* The text updateFrontmatterTags passes to vault.modify.  (No "$" occurs in
\* the modelled texts, so the replacement strings hold no "$" patterns.)
updateFrontmatterTags(content, tags, overwriteExistingTags) ==
    LET fm == FrontmatterMatch(content)
        frontmatter == fm.frontmatter
        hasTags == TagsLineStart(frontmatter) # 0
        mergedTags == Unique(ExistingTags(ExistingTagsStr(frontmatter)) \o tags)
        newFrontmatter ==
            IF hasTags /\ ~overwriteExistingTags
            THEN ReplaceTagsLine(frontmatter, TagsKey \o <<Newline>> \o TagLines(mergedTags))
            ELSE IF hasTags
            THEN ReplaceTagsLine(frontmatter, TagsKey \o <<Newline>> \o TagLines(tags))
            ELSE frontmatter \o <<Newline>> \o TagsKey \o <<Newline>> \o TagLines(tags)
    IN  IF fm.found
        THEN FenceOpen \o newFrontmatter \o FenceClose
                 \o Sub(content, fm.last + 1, Len(content))
        ELSE FenceOpen \o TagsKey \o <<Newline>> \o TagLines(tags) \o FenceClose \o content

\* isFileExcluded(file)
isFileExcluded(file, st) ==
    \E k \in 1..Len(st.excludeFolders) : LitAt(file.path, 1, st.excludeFolders[k])

\* keywordExtractor.extractKeywords(text, title): the values it may return.
extractKeywords(bodyText, noteTitle, topN) ==
    getTopKeywords(countFrequency(WeightedSequence(TitleKeywords(noteTitle),
                                                   extractProperNouns(bodyText),
                                                   extractGeneralKeywords(bodyText),
                                                   extractNumbers(bodyText))),
                   topN)

\* How an awaited vault call may reject: with an Error, or with a reason that
\* has no properties (undefined or null).
RejectionReasons == { "Error", "undefined" }

\* The catch block of generateTagsForNote: console.error, then
\* new Notice('...' + error.message), which throws a TypeError when the reason
\* is undefined or null, so that the call rejects.
NoteCatch(reason) == IF reason = "Error" THEN "returned" ELSE "rejected"

\* A bulk loop whose call of generateTagsForNote is not in a try block.
LoopTryNoCatch(settled) ==
    IF settled = "returned" THEN [processed |-> 1, caught |-> FALSE, pc |-> "loop"]
    ELSE [processed |-> 0, caught |-> FALSE, pc |-> "aborted"]

\* try { await this.generateTagsForNote(file); processedCount++; } catch ...
LoopTry(settled) ==
    IF settled = "returned" THEN [processed |-> 1, caught |-> FALSE, pc |-> "loop"]
    ELSE [processed |-> 0, caught |-> TRUE, pc |-> "loop"]

(***************************************************************************)
(* State                                                                   *)
(***************************************************************************)
VARIABLES
    pc,          \* the position of the operation being run
    maxTags,     \* KeywordExtractor.maxTags
    title,       \* extractKeywords: the argument title
    text,        \* extractKeywords: the argument text
    titleKeywords, \* extractKeywords: the local titleKeywords
    properNouns, \* extractKeywords: the local properNouns
    bodyKeywords, \* extractKeywords: the local bodyKeywords
    numbers,     \* extractKeywords: the local numbers
    keywords,    \* extractKeywords: the local keywords (the weighted sequence)
    keywordFreq, \* extractKeywords: the local keywordFreq
    result,      \* extractKeywords: the value returned
    word,        \* cleanKoreanWord: the argument
    cleaned,     \* cleanKoreanWord(word)
    recleaned,   \* cleanKoreanWord(cleaned)
    stored,      \* the plugin's persisted data (what loadData returns)
    settings,    \* TagGeneratorPlugin.settings
    aiSettings,  \* AIService.settings
    refineInput, \* refineTags: the argument tags
    response,    \* refineTags: how the outbound call settled
    refined,     \* refineTags: the value the promise resolved to
    calls,       \* the number of outbound calls made
    vault,       \* the markdown files of the vault, in getMarkdownFiles order
    idx,         \* generateTagsForAllNotes: the position of the loop in files
    processedCount, \* generateTagsForAllNotes: the local processedCount
    skippedCount, \* generateTagsForAllNotes: the local skippedCount
    tags,        \* generateTagsForNote: the local tags
    notices,     \* the notices shown so far
    consoleErrors, \* the console.error calls so far
    readCalls,   \* the positions of the files passed to vault.read so far
    modifyCalls, \* the positions of the files passed to vault.modify so far
    before       \* the vault as it was when the command was invoked

extractorLocals == <<titleKeywords, properNouns, bodyKeywords, numbers, keywords,
                     keywordFreq>>
extractorVars == <<maxTags, title, text, extractorLocals, result>>
stripperVars == <<word, cleaned, recleaned>>
pluginVars == <<stored, settings, aiSettings>>
refinerVars == <<refineInput, response, refined, calls>>
bulkVars == <<vault, idx, processedCount, skippedCount, tags, notices,
              consoleErrors, readCalls, modifyCalls, before>>
vars == <<pc, extractorVars, stripperVars, pluginVars, refinerVars, bulkVars>>

NotCalled ==
    /\ titleKeywords = <<>>
    /\ properNouns = <<>>
    /\ bodyKeywords = <<>>
    /\ numbers = <<>>
    /\ keywords = <<>>
    /\ keywordFreq = <<>>
    /\ result = <<>>

ExtractorIdle ==
    /\ maxTags = DefaultMaxTags
    /\ title = <<>>
    /\ text = <<>>
    /\ NotCalled

StripperIdle ==
    /\ word = <<>>
    /\ cleaned = <<>>
    /\ recleaned = <<>>

NothingStored == [exists |-> FALSE, data |-> DEFAULT_SETTINGS]

PluginIdle ==
    /\ stored = NothingStored
    /\ settings = DEFAULT_SETTINGS
    /\ aiSettings = AIServiceSettings(DEFAULT_SETTINGS)

NoResponse == [kind |-> "none", content |-> <<>>]

RefinerIdle ==
    /\ refineInput = <<>>
    /\ response = NoResponse
    /\ refined = <<>>
    /\ calls = 0

BulkIdle ==
    /\ vault = <<>>
    /\ idx = 0
    /\ processedCount = 0
    /\ skippedCount = 0
    /\ tags = <<>>
    /\ notices = <<>>
    /\ consoleErrors = <<>>
    /\ readCalls = <<>>
    /\ modifyCalls = <<>>
    /\ before = <<>>

(***************************************************************************)
(* Inputs                                                                  *)
(***************************************************************************)
MaxTextWords == 3
MaxTitleWords == 2
MaxTagsBound == 2
MaxWordLen == 4

\* Words that reach each path of the extractor: a noun with a particle, a
\* stopword, a capitalised word, an acronym that is a stopword, a company whose
\* name is a member of Object.prototype, and a year.
Vocabulary ==
    { Ko(<<"hoe", "sa", "neun">>),
      Ko(<<"gwan", "gye">>),
      Up(<<"a">>) \o Lo(<<"b", "c">>),
      Up(<<"i", "s">>),
      <<JuMark>> \o Lo(<<"c", "o", "n", "s", "t", "r", "u", "c", "t", "o", "r">>),
      Dg(<<"2", "0", "2", "4">>) \o <<Nyeon>> }

\* The words joined by single spaces.
RECURSIVE Join(_)
Join(words) ==
    IF Len(words) = 0 THEN <<>>
    ELSE IF Len(words) = 1 THEN words[1]
    ELSE words[1] \o <<Space>> \o Join(Tail(words))

Texts == { Join(ws) : ws \in UNION { [1..n -> Vocabulary] : n \in 0..MaxTextWords } }
Titles == {<<>>} \cup Vocabulary

\* A bare noun, a noun with a particle, a capitalised word and an acronym.
WeightVocabulary ==
    { Ko(<<"sam", "seong">>),
      Ko(<<"hoe", "sa", "neun">>),
      Up(<<"a">>) \o Lo(<<"b", "c">>),
      Up(<<"a", "i">>) }

WeightTexts ==
    { Join(ws) : ws \in UNION { [1..n -> WeightVocabulary] : n \in 0..MaxTextWords } }
WeightTitles ==
    { Join(ws) : ws \in UNION { [1..n -> WeightVocabulary] : n \in 0..MaxTitleWords } }

StripperAlphabet ==
    { <<"ko", "hoe">>, <<"ko", "sa">>, <<"ko", "i">>, <<"ko", "ga">>,
      <<"ko", "e">>, <<"ko", "seo">>, <<"ko", "neun">>, <<"ko", "do">> }

KoreanWords == UNION { [1..n -> StripperAlphabet] : n \in 1..MaxWordLen }

(***************************************************************************)
(* extractKeywords(text, title) on an extractor built with maxTags         *)
(***************************************************************************)
Init ==
    /\ pc = "ready"
    /\ maxTags \in 1..MaxTagsBound
    /\ title \in Titles
    /\ text \in Texts
    /\ NotCalled
    /\ StripperIdle
    /\ PluginIdle
    /\ RefinerIdle
    /\ BulkIdle

ExtractKeywords ==
    /\ pc = "ready"
    /\ titleKeywords' = TitleKeywords(title)
    /\ properNouns' = extractProperNouns(text)
    /\ bodyKeywords' = extractGeneralKeywords(text)
    /\ numbers' = extractNumbers(text)
    /\ keywords' = WeightedSequence(titleKeywords', properNouns', bodyKeywords',
                                    numbers')
    /\ keywordFreq' = countFrequency(keywords')
    /\ result' \in getTopKeywords(keywordFreq', maxTags)
    /\ pc' = "done"
    /\ UNCHANGED <<maxTags, title, text, stripperVars, pluginVars, refinerVars, bulkVars>>

Next == ExtractKeywords

Spec == Init /\ [][Next]_vars

(***************************************************************************)
(* extractKeywords on an extractor built with the default maxTags, over    *)
(* titles and texts with repeated terms                                    *)
(***************************************************************************)
InitWeight ==
    /\ pc = "ready"
    /\ maxTags = DefaultMaxTags
    /\ title \in WeightTitles
    /\ text \in WeightTexts
    /\ NotCalled
    /\ StripperIdle
    /\ PluginIdle
    /\ RefinerIdle
    /\ BulkIdle

SpecWeight == InitWeight /\ [][Next]_vars

(***************************************************************************)
(* cleanKoreanWord applied to a word, and again to its own output          *)
(***************************************************************************)
InitStripper ==
    /\ pc = "clean"
    /\ word \in KoreanWords
    /\ cleaned = <<>>
    /\ recleaned = <<>>
    /\ ExtractorIdle
    /\ PluginIdle
    /\ RefinerIdle
    /\ BulkIdle

CleanWord ==
    /\ pc = "clean"
    /\ cleaned' = cleanKoreanWord(word)
    /\ pc' = "cleaned"
    /\ UNCHANGED <<word, recleaned, extractorVars, pluginVars, refinerVars, bulkVars>>

CleanAgain ==
    /\ pc = "cleaned"
    /\ recleaned' = cleanKoreanWord(cleaned)
    /\ pc' = "recleaned"
    /\ UNCHANGED <<word, cleaned, extractorVars, pluginVars, refinerVars, bulkVars>>

NextStripper == CleanWord \/ CleanAgain

SpecStripper == InitStripper /\ [][NextStripper]_vars

(***************************************************************************)
(* The plugin's settings: onload, and the controls of the settings tab.    *)
(* Before onload the plugin has no extractor; maxTags is the field of      *)
(* this.keywordExtractor once pc = "loaded".                               *)
(***************************************************************************)
\* What data.json may hold for maxTags: nothing, or any integer.
PersistedData ==
    { NothingStored }
        \cup { [exists |-> TRUE, data |-> [DEFAULT_SETTINGS EXCEPT !.maxTags = n]] :
                   n \in (0 - 1)..MaxTagsBound }

\* What the user may type into the 'Maximum number of tags' field.
TypedValues ==
    { <<>>,
      Dg(<<"0">>),
      Dg(<<"1">>),
      Dg(<<"3">>),
      <<Minus>> \o Dg(<<"2">>),
      <<Space>> \o Dg(<<"1", "2">>) \o Lo(<<"x">>),
      Lo(<<"a">>) \o Dg(<<"5">>) }

InitSettings ==
    /\ pc = "unloaded"
    /\ stored \in PersistedData
    /\ settings = DEFAULT_SETTINGS
    /\ aiSettings = AIServiceSettings(DEFAULT_SETTINGS)
    /\ ExtractorIdle
    /\ StripperIdle
    /\ RefinerIdle
    /\ BulkIdle

\* onload, up to the construction of the two services.
OnLoad ==
    /\ pc = "unloaded"
    /\ settings' = LoadedSettings(stored)
    /\ LET made == NewKeywordExtractor(settings'.maxTags)
       IN  IF made.threw
           THEN pc' = "load failed" /\ UNCHANGED maxTags
           ELSE pc' = "loaded" /\ maxTags' = made.maxTags
    /\ aiSettings' = AIServiceSettings(settings')
    /\ UNCHANGED <<stored, title, text, extractorLocals, result, stripperVars,
                   refinerVars, bulkVars>>

\* saveSettings with the settings object already updated to st.
SaveSettings(st) ==
    /\ settings' = st
    /\ stored' = [exists |-> TRUE, data |-> st]
    /\ LET made == NewKeywordExtractor(st.maxTags)
       IN  IF made.threw
           THEN pc' = "save failed" /\ UNCHANGED <<maxTags, aiSettings>>
           ELSE /\ pc' = pc
                /\ maxTags' = made.maxTags
                /\ aiSettings' = AIServiceSettings(st)
    /\ UNCHANGED <<title, text, extractorLocals, result, stripperVars, refinerVars, bulkVars>>

\* 'Maximum number of tags' onChange
ChangeMaxTags ==
    /\ pc = "loaded"
    /\ \E value \in TypedValues :
          LET parsed == ParseInt(value)
          IN  IF ~parsed.nan /\ parsed.num > 0
              THEN SaveSettings([settings EXCEPT !.maxTags = parsed.num])
              ELSE UNCHANGED vars

\* 'Use AI for tag refinement' onChange
ChangeUseAI ==
    /\ pc = "loaded"
    /\ \E value \in BOOLEAN : SaveSettings([settings EXCEPT !.useAI = value])

\* 'OpenAI API Key' onChange
ChangeApiKey ==
    /\ pc = "loaded"
    /\ \E value \in {"", "sk-1"} :
          SaveSettings([settings EXCEPT !.openaiApiKey = value])

\* 'AI Model' onChange
ChangeModel ==
    /\ pc = "loaded"
    /\ \E value \in ModelOptions : SaveSettings([settings EXCEPT !.model = value])

\* 'Overwrite existing tags' onChange
ChangeOverwrite ==
    /\ pc = "loaded"
    /\ \E value \in BOOLEAN :
          SaveSettings([settings EXCEPT !.overwriteExistingTags = value])

\* 'Minimum word length' onChange
ChangeMinWordLength ==
    /\ pc = "loaded"
    /\ \E value \in TypedValues :
          LET parsed == ParseInt(value)
          IN  IF ~parsed.nan /\ parsed.num > 0
              THEN SaveSettings([settings EXCEPT !.minWordLength = parsed.num])
              ELSE UNCHANGED vars

\* What the user may type into the 'Excluded folders' text area.
TypedFolders ==
    { <<>>,
      Up(<<"t">>) \o <<Slash>>,
      <<Space>> \o Up(<<"t">>) \o <<Slash, Space, Newline, Newline>> \o Lo(<<"a">>) }

\* 'Excluded folders' onChange
ChangeExcludeFolders ==
    /\ pc = "loaded"
    /\ \E value \in TypedFolders :
          SaveSettings([settings EXCEPT !.excludeFolders = ParseFolders(value)])

NextSettings ==
    \/ OnLoad
    \/ ChangeMaxTags
    \/ ChangeUseAI
    \/ ChangeApiKey
    \/ ChangeModel
    \/ ChangeOverwrite
    \/ ChangeMinWordLength
    \/ ChangeExcludeFolders

SpecSettings == InitSettings /\ [][NextSettings]_vars

(***************************************************************************)
(* One call of AIService.refineTags(tags, noteContent)                     *)
(***************************************************************************)
MaxPayloadLen == 5

PayloadAlphabet ==
    { Quote, LBracket, RBracket, Comma, <<"lo", "a">>, <<"digit", "1">> }

Payloads == UNION { [1..n -> PayloadAlphabet] : n \in 0..MaxPayloadLen }

Responses ==
    { [kind |-> k, content |-> <<>>] :
          k \in {"network error", "http error", "body not json", "no choices",
                 "no content", "null content"} }
        \cup { [kind |-> "content", content |-> c] : c \in Payloads }

TagLists ==
    { <<>>,
      <<Ko(<<"hoe", "sa">>)>>,
      <<Ko(<<"hoe", "sa">>), Up(<<"a">>) \o Lo(<<"b", "c">>)>>,
      <<Up(<<"a">>) \o Lo(<<"b", "c">>), Ko(<<"hoe", "sa">>)>> }

InitRefine ==
    /\ pc = "refine"
    /\ aiSettings \in [useAI : BOOLEAN, openaiApiKey : {"", "sk-1"},
                       model : {"gpt-3.5-turbo"}]
    /\ refineInput \in TagLists
    /\ response = NoResponse
    /\ refined = <<>>
    /\ calls = 0
    /\ stored = NothingStored
    /\ settings = DEFAULT_SETTINGS
    /\ ExtractorIdle
    /\ StripperIdle
    /\ BulkIdle

\* The guard of refineTags holds: the tags are returned as they are.
RefineOff ==
    /\ pc = "refine"
    /\ RefinementOff(aiSettings)
    /\ refined' = refineInput
    /\ pc' = "resolved"
    /\ UNCHANGED <<refineInput, response, calls, extractorVars, stripperVars,
                   pluginVars, bulkVars>>

\* The request is built and fetch is called.
RefineFetch ==
    /\ pc = "refine"
    /\ ~RefinementOff(aiSettings)
    /\ calls' = calls + 1
    /\ pc' = "fetching"
    /\ UNCHANGED <<refineInput, response, refined, extractorVars, stripperVars,
                   pluginVars, bulkVars>>

\* fetch settles and the rest of refineTags runs.
RefineSettle ==
    /\ pc = "fetching"
    /\ \E r \in Responses :
          /\ response' = r
          /\ pc' = SettleRefine(refineInput, r).state
          /\ refined' = SettleRefine(refineInput, r).value
    /\ UNCHANGED <<refineInput, calls, extractorVars, stripperVars, pluginVars,
                   bulkVars>>

NextRefine == RefineOff \/ RefineFetch \/ RefineSettle

SpecRefine == InitRefine /\ [][NextRefine]_vars

(***************************************************************************)
(* The command 'Generate tags for all notes': generateTagsForAllNotes,     *)
(* with generateTagsForNote run on every file that is not excluded.  Each  *)
(* await is a step of its own; the vault and the completions endpoint      *)
(* settle every call, one way or the other.                                *)
(***************************************************************************)
MaxFiles == 3

TemplatesFolder == Up(<<"t">>) \o <<Slash>>                 \* "T/"
MdSuffix == <<Dot>> \o Lo(<<"m", "d">>)                     \* ".md"
AbcName == Up(<<"a">>) \o Lo(<<"b", "c">>)

\* A note under the excluded folder, a note with a single-value tags field,
\* a note that yields no keyword, and a note with markdown in its body.
FilePool ==
    { [ path |-> TemplatesFolder \o AbcName \o MdSuffix,
        basename |-> AbcName,
        content |-> <<>> ],
      [ path |-> AbcName \o MdSuffix,
        basename |-> AbcName,
        content |-> FenceOpen \o TagsKey \o <<Space>> \o Lo(<<"a">>) \o FenceClose ],
      [ path |-> Lo(<<"a">>) \o MdSuffix,
        basename |-> Lo(<<"a">>),
        content |-> <<>> ],
      [ path |-> Lo(<<"n">>) \o MdSuffix,
        basename |-> Lo(<<"n">>),
        content |-> <<<<"sym", "#">>, Space>> \o Ko(<<"hoe", "sa", "neun">>) ] }

\* The file lists: up to MaxFiles files of the pool, each at most once.
Vaults ==
    UNION { { v \in [1..n -> FilePool] :
                \A i, j \in 1..n : i # j => v[i] # v[j] } : n \in 1..MaxFiles }

\* How the completions endpoint may answer during a bulk run: not at all, with
\* an empty array, or with the array ["a"].
BulkResponses ==
    { [kind |-> "network error", content |-> <<>>],
      [kind |-> "content", content |-> <<LBracket, RBracket>>],
      [kind |-> "content",
       content |-> <<LBracket, Quote>> \o Lo(<<"a">>) \o <<Quote, RBracket>>] }

BulkSettings ==
    { [DEFAULT_SETTINGS EXCEPT !.excludeFolders = <<TemplatesFolder>>,
                               !.useAI = u,
                               !.openaiApiKey = IF u THEN "sk-1" ELSE ""] :
          u \in BOOLEAN }

\* new Notice(...): kind names the message, file the position of the file it
\* is about (0: none), n and m the numbers it shows.
NoticeOf(kind, file, n, m) == [kind |-> kind, file |-> file, n |-> n, m |-> m]

ErrorOf(kind, file) == [kind |-> kind, file |-> file]

InitBulk ==
    /\ pc = "bulk"
    /\ settings \in BulkSettings
    /\ stored = [exists |-> TRUE, data |-> settings]
    /\ aiSettings = AIServiceSettings(settings)
    /\ maxTags = NewKeywordExtractor(settings.maxTags).maxTags
    /\ title = <<>>
    /\ text = <<>>
    /\ NotCalled
    /\ StripperIdle
    /\ RefinerIdle
    /\ vault \in Vaults
    /\ idx = 0
    /\ processedCount = 0
    /\ skippedCount = 0
    /\ tags = <<>>
    /\ notices = <<>>
    /\ consoleErrors = <<>>
    /\ readCalls = <<>>
    /\ modifyCalls = <<>>
    /\ before = vault

bulkRest == <<before, extractorVars, stripperVars, pluginVars, refinerVars>>

\* generateTagsForAllNotes up to the loop.
BulkStart ==
    /\ pc = "bulk"
    /\ idx' = 1
    /\ processedCount' = 0
    /\ skippedCount' = 0
    /\ notices' = Append(notices, NoticeOf("processing", 0, Len(vault), 0))
    /\ pc' = "loop"
    /\ UNCHANGED <<vault, tags, consoleErrors, readCalls, modifyCalls, bulkRest>>

\* The loop meets an excluded file.
SkipExcluded ==
    /\ pc = "loop"
    /\ idx <= Len(vault)
    /\ isFileExcluded(vault[idx], settings)
    /\ skippedCount' = skippedCount + 1
    /\ idx' = idx + 1
    /\ UNCHANGED <<pc, vault, processedCount, tags, notices, consoleErrors,
                   readCalls, modifyCalls, bulkRest>>

\* The loop calls generateTagsForNote, which runs up to await vault.read.
StartNote ==
    /\ pc = "loop"
    /\ idx <= Len(vault)
    /\ ~isFileExcluded(vault[idx], settings)
    /\ readCalls' = Append(readCalls, idx)
    /\ pc' = "reading"
    /\ UNCHANGED <<vault, idx, processedCount, skippedCount, tags, notices,
                   consoleErrors, modifyCalls, bulkRest>>

\* generateTagsForNote has settled, with the notices and console errors it
\* made; the loop's try statement goes on.
NoteSettles(settled, shown, logged) ==
    LET after == LoopTry(settled)
    IN  /\ processedCount' = processedCount + after.processed
        /\ consoleErrors' = IF after.caught
                            THEN Append(logged, ErrorOf("processing", idx))
                            ELSE logged
        /\ notices' = shown
        /\ tags' = <<>>
        /\ idx' = idx + 1
        /\ pc' = after.pc
        /\ UNCHANGED modifyCalls

\* An awaited call of generateTagsForNote rejected: its catch block runs.
NoteFails(reason) ==
    IF NoteCatch(reason) = "returned"
    THEN NoteSettles("returned", Append(notices, NoticeOf("error", idx, 0, 0)),
                     Append(consoleErrors, ErrorOf("generating", idx)))
    ELSE NoteSettles("rejected", notices,
                     Append(consoleErrors, ErrorOf("generating", idx)))

\* generateTagsForNote from 'if (tags.length === 0)' to await vault.modify.
FinishNote(final, shown) ==
    IF Len(final) = 0
    THEN NoteSettles("returned", Append(shown, NoticeOf("no tags", idx, 0, 0)),
                     consoleErrors)
    ELSE /\ tags' = final
         /\ notices' = shown
         /\ modifyCalls' = Append(modifyCalls, idx)
         /\ pc' = "writing"
         /\ UNCHANGED <<idx, processedCount, consoleErrors>>

\* vault.read resolves: the keywords are extracted, and refined if enabled.
ReadResolves ==
    /\ pc = "reading"
    /\ LET bodyText == extractBodyText(vault[idx].content)
       IN  \E extracted \in extractKeywords(bodyText, vault[idx].basename, maxTags) :
              IF settings.useAI /\ settings.openaiApiKey # ""
              THEN /\ tags' = extracted
                   /\ notices' = Append(notices, NoticeOf("refining", idx, 0, 0))
                   /\ pc' = "refining"
                   /\ UNCHANGED <<idx, processedCount, consoleErrors, modifyCalls>>
              ELSE FinishNote(extracted, notices)
    /\ UNCHANGED <<vault, skippedCount, readCalls, bulkRest>>

\* vault.read rejects.
ReadRejects ==
    /\ pc = "reading"
    /\ \E reason \in RejectionReasons : NoteFails(reason)
    /\ UNCHANGED <<vault, skippedCount, readCalls, bulkRest>>

\* aiService.refineTags settles.
RefineSettles ==
    /\ pc = "refining"
    /\ \E r \in BulkResponses :
          LET settled == IF RefinementOff(aiSettings)
                         THEN [state |-> "resolved", value |-> tags]
                         ELSE SettleRefine(tags, r)
          IN  IF settled.state = "resolved"
              THEN FinishNote(settled.value, notices)
              ELSE NoteFails("Error")
    /\ UNCHANGED <<vault, skippedCount, readCalls, bulkRest>>

\* vault.modify resolves: the file holds the new content.
WriteResolves ==
    /\ pc = "writing"
    /\ vault' = [vault EXCEPT ![idx].content =
                    updateFrontmatterTags(vault[idx].content, tags,
                                          settings.overwriteExistingTags)]
    /\ NoteSettles("returned",
                   Append(notices, NoticeOf("generated", idx, Len(tags), 0)),
                   consoleErrors)
    /\ UNCHANGED <<skippedCount, readCalls, bulkRest>>

\* vault.modify rejects.
WriteRejects ==
    /\ pc = "writing"
    /\ \E reason \in RejectionReasons : NoteFails(reason)
    /\ UNCHANGED <<vault, skippedCount, readCalls, bulkRest>>

\* The loop is over: the summary notice.
ShowSummary ==
    /\ pc = "loop"
    /\ idx > Len(vault)
    /\ notices' = Append(notices,
                         NoticeOf("summary", 0, processedCount, skippedCount))
    /\ pc' = "summary"
    /\ UNCHANGED <<vault, idx, processedCount, skippedCount, tags, consoleErrors,
                   readCalls, modifyCalls, bulkRest>>

NextBulk ==
    \/ BulkStart
    \/ SkipExcluded
    \/ StartNote
    \/ ReadResolves
    \/ ReadRejects
    \/ RefineSettles
    \/ WriteResolves
    \/ WriteRejects
    \/ ShowSummary

\* The run is under way: a continuation is ready or an awaited call is pending.
BulkRunning == pc \in {"bulk", "loop", "reading", "refining", "writing"}

\* What every step of NextBulk does to the position of the run.
BulkStep ==
    /\ BulkRunning
    /\ pc' \in {"loop", "reading", "refining", "writing", "summary"}
    /\ idx' \in {idx, idx + 1}

\* The runtime runs every continuation that is ready, and every awaited call
\* settles: while the run is under way it takes a step.  (Every step of
\* NextBulk changes <<pc, idx>>, and one is possible whenever BulkRunning
\* holds, so the condition is the weak fairness of NextBulk.)
SpecBulk == InitBulk /\ [][NextBulk]_vars /\ WF_<<pc, idx>>(BulkStep)

(***************************************************************************)
(* updateFrontmatterTags on one note, and again on what it wrote           *)
(***************************************************************************)
MaxOldTags == 2
MaxNewTags == 2

TagNames == { Lo(<<"a">>), Lo(<<"b">>), AbcName }

\* The lists of up to n tag names, each at most once.
TagListsUpTo(n) ==
    UNION { { l \in [1..k -> TagNames] :
                \A i, j \in 1..k : i # j => l[i] # l[j] } : k \in 0..n }

\* array.join(', ')
RECURSIVE JoinComma(_)
JoinComma(list) ==
    IF Len(list) = 0 THEN <<>>
    ELSE IF Len(list) = 1 THEN list[1]
    ELSE list[1] \o <<Comma, Space>> \o JoinComma(Tail(list))

\* The forms of a tags field that holds the tags old: an inline array, a
\* single value, and the list of '  - tag' lines that the plugin writes.
TagsFields(old) ==
    { TagsKey \o <<Space, LBracket>> \o JoinComma(old) \o <<RBracket>>,
      TagsKey \o <<Newline>> \o TagLines(old) }
        \cup (IF Len(old) = 1 THEN { TagsKey \o <<Space>> \o old[1] } ELSE {})
        \cup (IF Len(old) = 0 THEN { TagsKey } ELSE {})

OtherField == Lo(<<"x">>) \o <<Colon, Space>> \o Lo(<<"y">>)    \* "x: y"

\* The notes: without frontmatter, with a frontmatter that has no tags field,
\* and with a tags field of every form, alone or before another field.
Documents ==
    { AbcName, FenceOpen \o OtherField \o FenceClose \o AbcName }
        \cup { FenceOpen \o field \o rest \o FenceClose \o AbcName :
                  field \in UNION { TagsFields(old) : old \in TagListsUpTo(MaxOldTags) },
                  rest \in { <<>>, <<Newline>> \o OtherField } }

InitUpdate ==
    /\ pc = "update"
    /\ \E o \in BOOLEAN :
          settings = [DEFAULT_SETTINGS EXCEPT !.overwriteExistingTags = o]
    /\ stored = [exists |-> TRUE, data |-> settings]
    /\ aiSettings = AIServiceSettings(settings)
    /\ \E content \in Documents :
          vault = <<[path |-> AbcName \o MdSuffix, basename |-> AbcName,
                     content |-> content]>>
    /\ before = vault
    /\ tags \in TagListsUpTo(MaxNewTags) \ {<<>>}
    /\ idx = 1
    /\ processedCount = 0
    /\ skippedCount = 0
    /\ notices = <<>>
    /\ consoleErrors = <<>>
    /\ readCalls = <<>>
    /\ modifyCalls = <<>>
    /\ ExtractorIdle
    /\ StripperIdle
    /\ RefinerIdle

updateRest == <<idx, processedCount, skippedCount, tags, notices, consoleErrors,
                readCalls, bulkRest>>

\* updateFrontmatterTags(file, content, tags, fileCache) with the content of
\* the file; vault.modify resolves.
UpdateTags ==
    /\ pc \in {"update", "updated"}
    /\ vault' = [vault EXCEPT ![idx].content =
                    updateFrontmatterTags(vault[idx].content, tags,
                                          settings.overwriteExistingTags)]
    /\ modifyCalls' = Append(modifyCalls, idx)
    /\ pc' = IF pc = "update" THEN "updated" ELSE "updated again"
    /\ UNCHANGED updateRest

\* The same call; vault.modify rejects and the file keeps its content.
UpdateRejected ==
    /\ pc \in {"update", "updated"}
    /\ modifyCalls' = Append(modifyCalls, idx)
    /\ pc' = "update failed"
    /\ UNCHANGED <<vault, updateRest>>

NextUpdate == UpdateTags \/ UpdateRejected

SpecUpdate == InitUpdate /\ [][NextUpdate]_vars

(***************************************************************************)
(* One call of generateTagsForNote(file)                                   *)
(***************************************************************************)
\* The call is made for one of the files of the vault or, from the editor
\* command when the view has no file, for null (idx = 0).
InitNote ==
    /\ pc = "note"
    /\ settings \in BulkSettings
    /\ stored = [exists |-> TRUE, data |-> settings]
    /\ aiSettings = AIServiceSettings(settings)
    /\ maxTags = NewKeywordExtractor(settings.maxTags).maxTags
    /\ title = <<>>
    /\ text = <<>>
    /\ NotCalled
    /\ StripperIdle
    /\ RefinerIdle
    /\ vault \in Vaults
    /\ idx \in 0..Len(vault)
    /\ processedCount = 0
    /\ skippedCount = 0
    /\ tags = <<>>
    /\ notices = <<>>
    /\ consoleErrors = <<>>
    /\ readCalls = <<>>
    /\ modifyCalls = <<>>
    /\ before = vault

noteRest == <<idx, processedCount, skippedCount, bulkRest>>

\* if (!file) { new Notice('No file selected'); return; }
NoteNoFile ==
    /\ pc = "note"
    /\ idx = 0
    /\ notices' = Append(notices, NoticeOf("no file", 0, 0, 0))
    /\ pc' = "returned"
    /\ UNCHANGED <<vault, tags, consoleErrors, readCalls, modifyCalls, noteRest>>

\* if (this.isFileExcluded(file)) { new Notice(...); return; }
NoteExcluded ==
    /\ pc = "note"
    /\ idx # 0
    /\ isFileExcluded(vault[idx], settings)
    /\ notices' = Append(notices, NoticeOf("excluded", idx, 0, 0))
    /\ pc' = "returned"
    /\ UNCHANGED <<vault, tags, consoleErrors, readCalls, modifyCalls, noteRest>>

\* The call enters the try block and awaits vault.read(file).
NoteStart ==
    /\ pc = "note"
    /\ idx # 0
    /\ ~isFileExcluded(vault[idx], settings)
    /\ readCalls' = Append(readCalls, idx)
    /\ pc' = "note reading"
    /\ UNCHANGED <<vault, tags, notices, consoleErrors, modifyCalls, noteRest>>

\* The catch block after an awaited call rejected.
NoteThrows(reason) ==
    /\ consoleErrors' = Append(consoleErrors, ErrorOf("generating", idx))
    /\ notices' = IF NoteCatch(reason) = "returned"
                  THEN Append(notices, NoticeOf("error", idx, 0, 0))
                  ELSE notices
    /\ pc' = NoteCatch(reason)
    /\ UNCHANGED <<tags, modifyCalls>>

\* A guard that lets every tag list through.
NoTagsGeneratedNever(final) == FALSE

\* if (tags.length === 0)
NoTagsGenerated(final) == Len(final) = 0

\* From 'if (tags.length === 0)' to the call of vault.modify at the end of
\* updateFrontmatterTags.
NoteFinish(final, shown) ==
    IF NoTagsGenerated(final)
    THEN /\ notices' = Append(shown, NoticeOf("no tags", idx, 0, 0))
         /\ pc' = "returned"
         /\ UNCHANGED <<tags, consoleErrors, modifyCalls>>
    ELSE /\ tags' = final
         /\ notices' = shown
         /\ modifyCalls' = Append(modifyCalls, idx)
         /\ pc' = "note writing"
         /\ UNCHANGED consoleErrors

\* vault.read resolves: the keywords are extracted, and refined if enabled.
NoteReadResolves ==
    /\ pc = "note reading"
    /\ LET bodyText == extractBodyText(vault[idx].content)
       IN  \E extracted \in extractKeywords(bodyText, vault[idx].basename, maxTags) :
              IF settings.useAI /\ settings.openaiApiKey # ""
              THEN /\ tags' = extracted
                   /\ notices' = Append(notices, NoticeOf("refining", idx, 0, 0))
                   /\ pc' = "note refining"
                   /\ UNCHANGED <<consoleErrors, modifyCalls>>
              ELSE NoteFinish(extracted, notices)
    /\ UNCHANGED <<vault, readCalls, noteRest>>

\* vault.read rejects.
NoteReadRejects ==
    /\ pc = "note reading"
    /\ \E reason \in RejectionReasons : NoteThrows(reason)
    /\ UNCHANGED <<vault, readCalls, noteRest>>

\* aiService.refineTags settles.
NoteRefineSettles ==
    /\ pc = "note refining"
    /\ \E r \in BulkResponses :
          LET settled == IF RefinementOff(aiSettings)
                         THEN [state |-> "resolved", value |-> tags]
                         ELSE SettleRefine(tags, r)
          IN  IF settled.state = "resolved"
              THEN NoteFinish(settled.value, notices)
              ELSE NoteThrows("Error")
    /\ UNCHANGED <<vault, readCalls, noteRest>>

\* vault.modify resolves: the file holds the new content; the last notice.
NoteWriteResolves ==
    /\ pc = "note writing"
    /\ vault' = [vault EXCEPT ![idx].content =
                    updateFrontmatterTags(vault[idx].content, tags,
                                          settings.overwriteExistingTags)]
    /\ notices' = Append(notices, NoticeOf("generated", idx, Len(tags), 0))
    /\ pc' = "returned"
    /\ UNCHANGED <<tags, consoleErrors, readCalls, modifyCalls, noteRest>>

\* vault.modify rejects.
NoteWriteRejects ==
    /\ pc = "note writing"
    /\ \E reason \in RejectionReasons : NoteThrows(reason)
    /\ UNCHANGED <<vault, readCalls, noteRest>>

NextNote ==
    \/ NoteNoFile
    \/ NoteExcluded
    \/ NoteStart
    \/ NoteReadResolves
    \/ NoteReadRejects
    \/ NoteRefineSettles
    \/ NoteWriteResolves
    \/ NoteWriteRejects

SpecNote == InitNote /\ [][NextNote]_vars

(***************************************************************************)
(* Properties of extractKeywords                                           *)
(***************************************************************************)
\* The weighted count of a term: its occurrences in the weighted sequence.
Occurrences(seq, k) == Cardinality({ i \in 1..Len(seq) : seq[i] = k })

FirstSeen(seq, k) == SetMin({ i \in 1..Len(seq) : seq[i] = k })

Terms(seq) == { seq[i] : i \in 1..Len(seq) }

\* k ranks before l: a greater weighted count, or the same count and seen first.
RanksBefore(seq, k, l) ==
    \/ Occurrences(seq, k) > Occurrences(seq, l)
    \/ /\ Occurrences(seq, k) = Occurrences(seq, l)
       /\ FirstSeen(seq, k) < FirstSeen(seq, l)

\* The terms of the weighted sequence by descending count, ties by first seen.
Ranking(seq) ==
    [r \in 1..Cardinality(Terms(seq)) |->
        CHOOSE k \in Terms(seq) :
            Cardinality({ l \in Terms(seq) : RanksBefore(seq, l, k) }) = r - 1]

\* C1: the sequence returned by an extractor built with a positive maxTags = N
\* has at most N entries.
C1_AtMostMaxTags ==
    pc = "done" /\ maxTags > 0 => Len(result) <= maxTags

\* C1 witness: more candidates than maxTags were counted and the result was
\* cut to maxTags entries.
C1_Truncated ==
    pc = "done" /\ maxTags > 0 /\ Len(keywordFreq) > maxTags /\ Len(result) = maxTags

\* C2: the sequence returned contains no string more than once.
C2_NoDuplicates ==
    pc = "done" => \A i, j \in 1..Len(result) : i # j => result[i] # result[j]

\* C2 witness: a returned term occurs many times in the weighted sequence: three
\* times from the title, twice as a proper noun, once from the body.
C2_RepeatedCandidateReturned ==
    /\ pc = "done"
    /\ \E i \in 1..Len(result) :
          /\ Occurrences(keywords, result[i]) >= 3
          /\ result[i] \in Terms(titleKeywords)
    /\ \E i \in 1..Len(result) :
          /\ Occurrences(keywords, result[i]) >= 2
          /\ result[i] \in Terms(properNouns)
    /\ \E i \in 1..Len(keywords) : keywords[i] \in Terms(numbers)

\* C3: the result is the first maxTags terms of the weighted sequence ordered by
\* descending weighted count, equal counts in first-seen order.
C3_RankedByCountThenFirstSeen ==
    pc = "done" =>
        result = Sub(Ranking(keywords), 1,
                     IF maxTags < Cardinality(Terms(keywords)) THEN maxTags
                     ELSE Cardinality(Terms(keywords)))

\* C5: no returned string is a Korean stopword (exact match) or an English
\* stopword (case-insensitive match).
C5_NoStopwordReturned ==
    pc = "done" =>
        \A i \in 1..Len(result) :
            /\ result[i] \notin stopwordsKo
            /\ ToLowerCase(result[i]) \notin stopwordsEn

\* The count recorded for k in the frequency table (0 when k has no entry).
RecordedCount(k) ==
    LET i == OwnIndex(keywordFreq, k)
    IN  IF i = 0 THEN 0 ELSE keywordFreq[i].count.n

\* t occurs n times in the title and nowhere in the body.
TitleOnly(t, n) ==
    /\ Occurrences(titleKeywords, t) = n
    /\ t \notin Terms(bodyKeywords) \cup Terms(properNouns) \cup Terms(numbers)

\* u occurs n times in the body, as a general keyword, and nowhere in the title.
BodyOnly(u, n) ==
    /\ Occurrences(bodyKeywords, u) = n
    /\ u \notin Terms(titleKeywords)

C6_NoNonPositiveExtractor ==
    pc = "loaded" => maxTags > 0

(***************************************************************************)
(* Properties of refineTags                                                *)
(***************************************************************************)
\* The outbound call failed, the response was no success, or the payload is
\* neither a JSON array nor holds a quoted substring.
RefinementFailed(r) ==
    \/ r.kind \in {"network error", "http error", "body not json", "no choices",
                   "no content", "null content"}
    \/ /\ r.kind = "content"
       /\ ~(JsonParse(r.content).ok /\ JsonParse(r.content).val.type = "array")
       /\ QuotedSubstrings(r.content) = <<>>

\* C7: refineTags never rejects; when the call fails it resolves to the input
\* tags, and when refinement is off it returns them without any outbound call.
C7_FallsBackToInput ==
    /\ pc # "rejected"
    /\ RefinementOff(aiSettings) => calls = 0
    /\ pc = "resolved" /\ RefinementOff(aiSettings) => refined = refineInput
    /\ pc = "resolved" /\ calls > 0 /\ RefinementFailed(response)
           => refined = refineInput

\* C7 witness: a call was made, the payload was neither a JSON array nor held
\* a quoted substring, and the two input tags came back in their order.
C7_FellBack ==
    /\ pc = "resolved"
    /\ calls = 1
    /\ response.kind = "content"
    /\ Len(response.content) > 0
    /\ RefinementFailed(response)
    /\ Len(refineInput) = 2
    /\ refined = refineInput

(***************************************************************************)
(* Properties of cleanKoreanWord                                           *)
(***************************************************************************)
\* C10: suffix stripping is idempotent: the stripper applied to its own output
\* returns that output unchanged.
C10_StrippingIdempotent == pc = "recleaned" => recleaned = cleaned

\* C10 witness: a word whose stacked suffixes took more than one replacement to
\* strip, and stripping the result again changed nothing.
C10_StackedSuffixesStripped ==
    /\ pc = "recleaned"
    /\ Len(cleaned) >= 2
    /\ cleaned # word
    /\ cleaned # ReplaceSuffix(word)
    /\ recleaned = cleaned

(***************************************************************************)
(* Properties of generateTagsForAllNotes                                   *)
(***************************************************************************)
\* The files for which tag generation came to its end without an error.
CompletedFiles ==
    { notices[k].file :
          k \in { m \in 1..Len(notices) : notices[m].kind \in {"generated", "no tags"} } }

ReadFiles == { readCalls[k] : k \in 1..Len(readCalls) }

SummaryShown ==
    /\ pc = "summary"
    /\ Len(notices) > 0
    /\ notices[Len(notices)].kind = "summary"

\* C8: a failure on one document never aborts the bulk run: the run reaches
\* its summary notice, and by then every document that is not excluded has
\* been attempted.
C8_BulkRunReachesSummary ==
    <>(/\ SummaryShown
       /\ \A i \in 1..Len(vault) :
             ~isFileExcluded(vault[i], settings) => i \in ReadFiles)

\* C8 witness: the summary is shown after a run in which a document failed in
\* a way that made generateTagsForNote reject, and a later document was
\* attempted all the same.
C8_ContinuedAfterFailure ==
    /\ SummaryShown
    /\ \E k \in 1..Len(consoleErrors) :
          /\ consoleErrors[k].kind = "processing"
          /\ \E j \in ReadFiles : j > consoleErrors[k].file

\* C9: at the end of the run the processed count shown is the number of
\* documents for which tag generation completed without error.
C9_ProcessedCountsCompletions ==
    SummaryShown =>
        notices[Len(notices)].n = Cardinality(CompletedFiles)

(***************************************************************************)
(* Properties of updateFrontmatterTags                                     *)
(***************************************************************************)
\* The lines of a text.
Lines(s) == Split(s, Newline)

RECURSIVE ListItems(_, _)
\* The items of the '  - tag' lines that follow line k without a gap.
ListItems(lines, k) ==
    IF k + 1 <= Len(lines) /\ LitAt(lines[k + 1], 1, ListItem)
    THEN <<Trim(Sub(lines[k + 1], 5, Len(lines[k + 1])))>> \o ListItems(lines, k + 1)
    ELSE <<>>

\* The tag list a reader of the frontmatter finds in a document: the entries of
\* the first tags field, written as an inline array, as a single value or as a
\* list of '  - tag' lines; none without frontmatter or tags field.
FrontmatterTagList(content) ==
    LET lines == Lines(FrontmatterMatch(content).frontmatter)
        at == { k \in 1..Len(lines) : LitAt(lines[k], 1, TagsKey) }
        k == SetMin(at)
        value == Trim(Sub(lines[k], 6, Len(lines[k])))
    IN  IF ~FrontmatterMatch(content).found \/ at = {} THEN <<>>
        ELSE IF CharAt(value, 1, LBracket)
        THEN TrimmedNonEmpty(Split(SelectSeq(value, NotBracket), Comma))
        ELSE IF value # <<>> THEN <<value>>
        ELSE ListItems(lines, k)

\* C11: with 'Overwrite existing tags' enabled, the tag list of the document
\* after updateFrontmatterTags is exactly the newly generated tags, whatever
\* the form of the tags field was.
C11_OverwriteLeavesOnlyNewTags ==
    pc = "updated" /\ settings.overwriteExistingTags
        => FrontmatterTagList(vault[1].content) = tags

NoRepeats(list) == \A i, j \in 1..Len(list) : i # j => list[i] # list[j]

\* C12: in merge mode the tag list after updateFrontmatterTags holds every tag
\* the document had and every new tag, each once, whatever the form of the
\* tags field was; and a second run on the result leaves the list as the first
\* run made it.
C12_MergeKeepsEachTagOnce ==
    /\ pc = "updated" /\ ~settings.overwriteExistingTags
          => /\ NoRepeats(FrontmatterTagList(vault[1].content))
             /\ Terms(FrontmatterTagList(vault[1].content))
                    = Terms(FrontmatterTagList(before[1].content)) \cup Terms(tags)
    /\ pc = "updated again" /\ ~settings.overwriteExistingTags
          => FrontmatterTagList(vault[1].content)
                 = FrontmatterTagList(updateFrontmatterTags(before[1].content, tags,
                                                            FALSE))

\* C13: for a Korean word of length >= 2, the value cleanKoreanWord returns
\* has length >= 2: no removal drops the word below two characters.
C13_StrippedWordKeepsTwoChars ==
    pc \in {"cleaned", "recleaned"} /\ Len(word) >= 2 => Len(cleaned) >= 2

RECURSIVE SumCounts(_)
SumCounts(freq) ==
    IF freq = <<>> THEN 0 ELSE Head(freq).count.n + SumCounts(Tail(freq))

\* C14: the count recorded for every candidate is the number 3 x its
\* occurrences among the title keywords + 2 x among the proper nouns + 1 x
\* among the body keywords + 1 x among the numeric tokens; every recorded
\* count is an integer >= 1 and the counts add up to the length of the
\* weighted sequence.
C14_CountIsWeightedOccurrences ==
    pc = "done" =>
        /\ \A i \in 1..Len(keywordFreq) :
              /\ keywordFreq[i].count.num
              /\ keywordFreq[i].count.n >= 1
        /\ \A k \in Terms(keywords) :
              RecordedCount(k) = 3 * Occurrences(titleKeywords, k)
                                    + 2 * Occurrences(properNouns, k)
                                    + Occurrences(bodyKeywords, k)
                                    + Occurrences(numbers, k)
        /\ \A i \in 1..Len(keywordFreq) : keywordFreq[i].key \in Terms(keywords)
        /\ SumCounts(keywordFreq) = Len(keywords)

(***************************************************************************)
(* Properties of generateTagsForNote                                       *)
(***************************************************************************)
\* The call of vault.modify in a step: the file it is made for.
ModifyCalled == modifyCalls' # modifyCalls

\* C15: one call of generateTagsForNote calls vault.modify at most once, and
\* only for a file that is not null and not under an excluded folder, when its
\* read has resolved, the refinement (if any) has settled and the final tag
\* list is not empty; the content of every document changes only through that
\* call, and in every other outcome it is what it was before the call.
C15_WritesOnceAndOnlyWithTags ==
    /\ [](Len(modifyCalls) <= 1)
    /\ [][ModifyCalled =>
              /\ modifyCalls' = <<idx>>
              /\ idx # 0
              /\ ~isFileExcluded(vault[idx], settings)
              /\ readCalls = <<idx>>
              /\ \/ pc = "note reading" /\ RefinementOff(settings)
                 \/ pc = "note refining"
              /\ tags' # <<>>]_vars
    /\ [][vault' # vault =>
              /\ pc = "note writing"
              /\ modifyCalls = <<idx>>
              /\ \A j \in 1..Len(vault) : j # idx => vault'[j] = vault[j]]_vars
    /\ [](modifyCalls = <<>> => vault = before)

\* C15 witness: the call has returned after its one write changed the file.
C15_WroteTheFile ==
    /\ pc = "returned"
    /\ modifyCalls = <<idx>>
    /\ vault[idx].content # before[idx].content

=============================================================================
